---- MODULE Spec2Model ----
(***************************************************************************)
(* A model of derex.runner: project root resolution, Project construction  *)
(* and image tag derivation, the requirements directory hash, the runmode  *)
(* status file, and the two docker-compose wrapper commands.               *)
(*                                                                         *)
(* Text is modelled as a sequence of tokens, a directory as a function     *)
(* from the names of its entries to the entries, a path as the sequence    *)
(* of its components below the filesystem root (<<>> is the root "/").     *)
(***************************************************************************)
EXTENDS Integers, Sequences, FiniteSets, TLC

VARIABLES
    conf,        \* filesystem: directory path -> what CONF_FILENAME is in it
    path,        \* the starting directory handed to find_project_root / Project
    root,        \* result of the last find_project_root call
    config,      \* what yaml.load gives for the configuration file of the root
    reqDir,      \* <root>/requirements: NoDir or a directory
    themesDir,   \* <root>/themes: NoDir or a directory
    project,     \* result of the last Project(path) call
    listing,     \* the order in which iterdir() enumerated requirements
    before,      \* snapshot taken when a directory was last mutated
    dirA, dirB,  \* two directories handed to get_requirements_hash
    hashA, hashB,\* their digests (with the enumeration order used)
    statusFile,  \* <root>/runmode: NoFile or its text
    lastSet,     \* the mode of the last runmode write, while the file is untouched
    got,         \* result of the last runmode read
    plugins,     \* registration order -> what plugin.settings() returns
    running,     \* the backing services that check_services detects
    docker,      \* is_docker_working()
    call,        \* the command line of the last CLI command
    outcome      \* what that command did

vars == <<conf, path, root, config, reqDir, themesDir, project, listing, before,
          dirA, dirB, hashA, hashB, statusFile, lastSet, got,
          plugins, running, docker, call, outcome>>

rootVars    == <<conf, path, root>>
projectVars == <<config, reqDir, themesDir, project, listing, before>>
hashVars    == <<dirA, dirB, hashA, hashB>>
runmodeVars == <<statusFile, lastSet, got>>
cliVars     == <<plugins, running, docker, call, outcome>>

Unset == [kind |-> "unset"]
None == <<>>
Some(x) == <<x>>

-----------------------------------------------------------------------------
(* Bounds of the model *)

MaxDepth == 2      \* directories are at most this deep below "/"
MaxConf == 2       \* at most this many directories hold a CONF_FILENAME file
MaxLen == 1        \* a file holds at most this many bytes
MaxText == 2       \* a status file holds at most this many tokens
MaxPlugins == 2    \* this many plugins are registered

-----------------------------------------------------------------------------
(* Paths and project root resolution (project.py) *)

DirNames == {"a", "b"}

RECURSIVE SeqsUpTo(_, _)
SeqsUpTo(S, n) ==
    IF n = 0 THEN {<<>>}
    ELSE LET shorter == SeqsUpTo(S, n - 1)
         IN  shorter \cup {Append(s, x) : s \in {t \in shorter : Len(t) = n - 1}, x \in S}

Paths == SeqsUpTo(DirNames, MaxDepth)

\* pathlib: Path.parent; the parent of the filesystem root is the root itself
Parent(p) == IF p = <<>> THEN p ELSE SubSeq(p, 1, Len(p) - 1)

\* (current / CONF_FILENAME).is_file()
HasConfFile(fs, p) == fs[p] = "file"

ValueError(msg) == [kind |-> "error", error |-> "ValueError", msg |-> msg]
IsError(r) == r.kind = "error"
Found(p) == [kind |-> "path", at |-> p]

\* the while loop of find_project_root, from `current`
RECURSIVE WalkUp(_, _)
WalkUp(fs, current) ==
    IF current # Parent(current)
    THEN IF HasConfFile(fs, current) THEN Found(current)
         ELSE WalkUp(fs, Parent(current))
    ELSE ValueError("no directory found")

find_project_root(fs, p) == WalkUp(fs, p)

Ancestors(p) == {SubSeq(p, 1, k) : k \in 0..Len(p)}

Layout(F, D) ==
    [p \in Paths |-> IF p \in F THEN "file" ELSE IF p \in D THEN "dir" ELSE "absent"]

\* the filesystems in which at most n directories hold a file of that name
\* and at most n others a directory of that name
Layouts(n) ==
    {Layout(F, D) : F \in {S \in SUBSET Paths : Cardinality(S) <= n},
                    D \in {S \in SUBSET Paths : Cardinality(S) <= n}}

-----------------------------------------------------------------------------
(* Directories and their hash (project.py, utils) *)

Bytes == {0, 1}
Contents == SeqsUpTo(Bytes, MaxLen)

NoDir == [exists |-> FALSE]
Dir(entries) == [exists |-> TRUE, entries |-> entries]
File(bytes) == [kind |-> "file", bytes |-> bytes]
SubDir == [kind |-> "dir"]
Entries == {File(c) : c \in Contents} \cup {SubDir}

ReqNames == {"r1", "r2"}
ThemeNames == {"t1"}

DirsOver(names) == {Dir(e) : e \in UNION {[S -> Entries] : S \in SUBSET names}}

\* the orders in which Path.iterdir() may yield the entries of d
Listings(d) ==
    {o \in [1..Cardinality(DOMAIN d.entries) -> DOMAIN d.entries] :
        \A i, j \in DOMAIN o : i # j => o[i] # o[j]}

\* hasher.update(file.read_bytes()) for each regular file, in listing order
RECURSIVE Concat(_, _)
Concat(d, o) ==
    IF o = <<>> THEN <<>>
    ELSE (IF d.entries[Head(o)].kind = "file" THEN d.entries[Head(o)].bytes ELSE <<>>)
         \o Concat(d, Tail(o))

\* hashlib.sha256(...).hexdigest(), idealised as collision-free: the number
\* that the byte string writes in bijective base Cardinality(Bytes)
RECURSIVE hexdigest(_)
hexdigest(bytes) ==
    IF bytes = <<>> THEN 0
    ELSE (Head(bytes) + 1) + Cardinality(Bytes) * hexdigest(Tail(bytes))

HashChars == 6

\* img_hash[:1] over a binary alphabet: one digit of the digest
PrefixShort(digest) == digest % 2

\* img_hash[:6]: six hexadecimal digits of the digest
Prefix6(digest) == digest % (16 ^ HashChars)

\* a hash of the first listed entry alone
HashFirstOnly(d, o) == hexdigest(Concat(d, IF o = <<>> THEN o ELSE <<Head(o)>>))

get_requirements_hash(d, o) == hexdigest(Concat(d, o))

\* get_dir_hash enumerates in a stable order: by name
NameOrder == <<"r1", "r2", "t1">>
SortedListing(names) == SelectSeq(NameOrder, LAMBDA n : n \in names)

get_dir_hash(d) == hexdigest(Concat(d, SortedListing(DOMAIN d.entries)))

-----------------------------------------------------------------------------
(* Project construction (project.py, Project.__init__) *)

ConfigKeys ==
    {"project_name", "base_image", "final_base_image", "mysql_db_name", "default_runmode"}

ConfigValue(k) ==
    CASE k = "project_name" -> "myproject"
      [] k = "base_image" -> <<"acme/openedx:1.0">>
      [] k = "final_base_image" -> <<"acme/openedx-nostatic:1.0">>
      [] k = "mysql_db_name" -> <<"acme_db">>
      [] k = "default_runmode" -> <<"production">>

\* yaml.load of an empty file gives None, of a mapping gives a dict
NoneConfig == [kind |-> "None"]
Mapping(items) == [kind |-> "dict", items |-> items]
Mappings == {Mapping([k \in K |-> ConfigValue(k)]) : K \in SUBSET ConfigKeys}
Configs == Mappings \cup {NoneConfig}

\* dict.get(key, default)
Get(cfg, key, default) == IF key \in DOMAIN cfg.items THEN cfg.items[key] ELSE default

AttributeError ==
    [kind |-> "error", error |-> "AttributeError", msg |-> "NoneType has no attribute get"]

\* f"{self.name}/openedx-requirements:{img_hash[:6]}"
RequirementsTag(name, img_hash) == <<name, "/openedx-requirements:", Prefix6(img_hash)>>
\* f"{self.name}/openedx-themes:{img_hash[:6]}"
ThemesTag(name, img_hash) == <<name, "/openedx-themes:", Prefix6(img_hash)>>

\* a requirements tag whether or not the directory exists
RequirementsImageTagAlways(name, base_image, req, o) ==
    RequirementsTag(name, IF req # NoDir THEN get_requirements_hash(req, o) ELSE 0)

\* lines 133-144
RequirementsImageTag(name, base_image, req, o) ==
    IF req # NoDir THEN RequirementsTag(name, get_requirements_hash(req, o))
    ELSE base_image

\* lines 146-154
ThemesImageTag(name, requirements_image_tag, themes) ==
    IF themes # NoDir THEN ThemesTag(name, get_dir_hash(themes))
    ELSE requirements_image_tag

\* line 166
ImageTag(themes_image_tag) == themes_image_tag

\* lines 117-128, with a default name instead of the project_name check
LoadConfigLenient(fs, p, cfg) ==
    LET r == find_project_root(fs, p)
    IN  IF IsError(r) THEN r
        ELSE IF cfg = NoneConfig THEN AttributeError
        ELSE [kind |-> "config",
              root |-> r.at,
              base_image |-> Get(cfg, "base_image", <<"derex/openedx-ironwood:latest">>),
              final_base_image |->
                  Get(cfg, "final_base_image", <<"derex/openedx-nostatic:latest">>),
              name |-> Get(cfg, "project_name", "None")]

\* lines 117-128: the root, the configuration, its defaults, the project_name check
LoadConfig(fs, p, cfg) ==
    LET r == find_project_root(fs, p)
    IN  IF IsError(r) THEN r
        ELSE IF cfg = NoneConfig THEN AttributeError
        ELSE IF "project_name" \notin DOMAIN cfg.items
             THEN ValueError("A project_name was not specified")
        ELSE [kind |-> "config",
              root |-> r.at,
              base_image |-> Get(cfg, "base_image", <<"derex/openedx-ironwood:latest">>),
              final_base_image |->
                  Get(cfg, "final_base_image", <<"derex/openedx-nostatic:latest">>),
              name |-> cfg.items["project_name"]]

\* Project(path) on filesystem fs, whose project root holds cfg, req and themes;
\* o is the order in which iterdir() lists req
ProjectInit(fs, p, cfg, req, themes, o) ==
    LET c == LoadConfig(fs, p, cfg)
    IN  IF IsError(c) THEN c
        ELSE LET rtag == RequirementsImageTag(c.name, c.base_image, req, o)
                 ttag == ThemesImageTag(c.name, rtag, themes)
             IN  [kind |-> "project",
                  root |-> c.root,
                  base_image |-> c.base_image,
                  final_base_image |-> c.final_base_image,
                  name |-> c.name,
                  requirements_dir |->
                      IF req # NoDir THEN Some(c.root \o <<"requirements">>) ELSE None,
                  requirements_image_tag |-> rtag,
                  themes_dir |-> IF themes # NoDir THEN Some(c.root \o <<"themes">>) ELSE None,
                  themes_image_tag |-> ttag,
                  image_tag |-> ImageTag(ttag),
                  mysql_db_name |-> Get(cfg, "mysql_db_name", <<c.name, "_edxapp">>)]

IsProject(r) == r.kind = "project"

ReqListings == IF reqDir = NoDir THEN {<<>>} ELSE Listings(reqDir)

\* project = Project(path)
Construct ==
    /\ project = Unset
    /\ \E o \in ReqListings :
          /\ project' = ProjectInit(conf, path, config, reqDir, themesDir, o)
          /\ listing' = o
    /\ UNCHANGED <<conf, path, root, config, reqDir, themesDir, before>>
    /\ UNCHANGED <<hashVars, runmodeVars, cliVars>>

-----------------------------------------------------------------------------
(* The runmode status (project.py, Project.runmode) *)

\* ProjectRunMode.__members__, the first being the default
ProjectRunMode == <<"debug", "production">>
Members == {ProjectRunMode[i] : i \in DOMAIN ProjectRunMode}

Whitespace == {" ", "\n"}
Tokens == Members \cup {"staging"} \cup Whitespace
Texts == SeqsUpTo(Tokens, MaxText)

\* values of default_runmode in the configuration file
DefaultValues == {<<>>, <<"debug">>, <<"production">>, <<"staging">>}
RunmodeConfigs ==
    {Mapping([k \in {"project_name"} |-> ConfigValue(k)])}
    \cup {Mapping([k \in {"project_name", "default_runmode"} |->
                      IF k = "default_runmode" THEN v ELSE ConfigValue(k)])
            : v \in DefaultValues}

\* mode_str in ProjectRunMode.__members__
IsMember(text) == \E m \in Members : text = <<m>>

\* Project._get_status: None, or the text of the file
get_status(file) == file

\* Path.write_text in append mode
write_text_append(file, value) ==
    IF file = None THEN Some(value) ELSE Some(file[1] \o value)

\* Project._set_status: Path.write_text(value) replaces the file
write_text(file, value) == Some(value)

Mode(m) == [kind |-> "mode", mode |-> m]

\* `if default:` is false of None and of the empty string
Truthy(default) == default # None /\ default # <<>>

\* the runmode property; text[1] is the one token of a text that is a member
runmode(file, cfg) ==
    LET mode_str == get_status(file)
        default == Get(cfg, "default_runmode", None)
    IN  IF mode_str # None /\ IsMember(mode_str[1]) THEN Mode(mode_str[1][1])
        ELSE IF Truthy(default) /\ IsMember(default) THEN Mode(default[1])
        ELSE Mode(ProjectRunMode[1])

\* mode = project.runmode
GetRunmode ==
    /\ got' = runmode(statusFile, config)
    /\ UNCHANGED <<statusFile, lastSet, config>>
    /\ UNCHANGED <<conf, path, root, reqDir, themesDir, project, listing, before>>
    /\ UNCHANGED <<hashVars, cliVars>>

\* project.runmode = ProjectRunMode[m]
SetRunmode ==
    /\ \E m \in Members :
          /\ statusFile' = write_text(statusFile, <<m>>)
          /\ lastSet' = Mode(m)
    /\ got' = Unset
    /\ UNCHANGED <<rootVars, projectVars, hashVars, cliVars>>

\* somebody edits or removes the status file
EditStatusFile ==
    /\ statusFile' \in {None} \cup {Some(t) : t \in Texts}
    /\ lastSet' = Unset
    /\ got' = Unset
    /\ UNCHANGED <<rootVars, projectVars, hashVars, cliVars>>

-----------------------------------------------------------------------------
(* The compose wrapper and the two commands (cli.py) *)

Variants == {"services", "openedx"}
Services == {"mysql", "mongodb", "rabbitmq"}

\* what plugin.settings() does: it raises, or maps some variants to a provider
PluginSettings ==
    {[raises |-> TRUE, provides |-> {}]}
    \cup {[raises |-> FALSE, provides |-> V] : V \in SUBSET Variants}

\* the list that the provider of plugin i (in registration order) returns
Fragment(i, variant) == <<"-f", "plugin" \o ToString(i) \o "-" \o variant \o ".yml">>

COMPOSE_EXTRA_OPTS == <<>>

\* the orders in which list(plugin_manager.get_plugins()) may hold the
\* registered plugins: get_plugins() returns a set
PluginListings(plugs) ==
    {o \in [1..Len(plugs) -> 1..Len(plugs)] : \A i, j \in DOMAIN o : i # j => o[i] # o[j]}

\* the loop over reversed(o), from position k down: the extended settings list
RECURSIVE Extend(_, _, _, _)
Extend(plugs, o, variant, k) ==
    IF k = 0 THEN <<>>
    ELSE (IF variant \in plugs[o[k]].provides THEN Fragment(o[k], variant) ELSE <<>>)
         \o Extend(plugs, o, variant, k - 1)

Effect(op) == [op |-> op]
Query(sql) == [op |-> "execute_mysql_query", sql |-> sql]
Main(argv) == [op |-> "main", argv |-> argv]

\* sys.argv with the user arguments ahead of the compose files
ArgvArgsFirst(settings, args) ==
    <<"docker-compose">> \o args \o settings \o COMPOSE_EXTRA_OPTS

\* line 61
Argv(settings, args) == <<"docker-compose">> \o settings \o COMPOSE_EXTRA_OPTS \o args

\* run_compose(args, variant, dry_run), the plugins listed in order o
run_compose(plugs, o, args, variant, dry_run) ==
    IF \E i \in DOMAIN plugs : plugs[i].raises
    THEN [raised |-> TRUE, effects |-> <<Effect("create_deps")>>, echoed |-> None,
          listing |-> Some(o)]
    ELSE LET argv == Argv(Extend(plugs, o, variant, Len(o)), args)
         IN  [raised |-> FALSE,
              effects |-> <<Effect("create_deps")>>
                          \o (IF dry_run THEN <<>> ELSE <<Main(argv)>>),
              echoed |-> Some(argv),
              listing |-> Some(o)]

\* derex.runner.docker.check_services
check_services(services) == services \subseteq running

\* lines 139-144
resetdb ==
    <<Effect("wait_for_mysql"), Query("CREATE DATABASE IF NOT EXISTS derex"),
      Effect("reset_mysql")>>

\* lines 147-150
resetmailslurper ==
    <<Effect("wait_for_mysql"), Query("DROP DATABASE IF EXISTS mailslurper"),
      Effect("load_dump")>>

Returned(rc, effects) ==
    [kind |-> "returned", rc |-> rc, effects |-> effects, echoed |-> None, listing |-> None]
Exited(rc) ==
    [kind |-> "exited", rc |-> rc, effects |-> <<>>, echoed |-> None, listing |-> None]
\* the command ends with run_compose, returning 0 unless that raised
Composed(r) ==
    [kind |-> IF r.raised THEN "raised" ELSE "returned", rc |-> IF r.raised THEN 1 ELSE 0,
     effects |-> r.effects, echoed |-> r.echoed, listing |-> r.listing]

\* ddc(compose_args, reset_mailslurper, dry_run)
ddc(plugs, o, compose_args, reset_mailslurper, dry_run) ==
    IF ~docker THEN Exited(1)
    ELSE IF reset_mailslurper
         THEN IF ~check_services({"mysql"}) THEN Returned(1, <<>>)
              ELSE Returned(0, resetmailslurper)
    ELSE Composed(run_compose(plugs, o, compose_args, "services", dry_run))

\* ddc_ironwood(compose_args, reset_mysql, dry_run)
ddc_ironwood(plugs, o, compose_args, reset_mysql, dry_run) ==
    IF ~docker THEN Exited(1)
    ELSE IF ~check_services({"mysql", "mongodb", "rabbitmq"})
            /\ \E k \in DOMAIN compose_args : compose_args[k] \in {"up", "start"}
         THEN Returned(-1, <<>>)
    ELSE IF reset_mysql THEN Returned(0, resetdb)
    ELSE Composed(run_compose(plugs, o, compose_args, "openedx", dry_run))

\* command lines the user may give
ArgLists == {<<>>, <<"up">>, <<"up", "-d">>, <<"ps">>, <<"start">>, <<"logs", "-f">>}

Call(cmd, args, reset, dry_run) ==
    [kind |-> "call", cmd |-> cmd, args |-> args, reset |-> reset, dry_run |-> dry_run]

\* the user runs ddc
Ddc ==
    /\ call = Unset
    /\ \E args \in ArgLists, reset, dry_run \in BOOLEAN, o \in PluginListings(plugins) :
          /\ call' = Call("ddc", args, reset, dry_run)
          /\ outcome' = ddc(plugins, o, args, reset, dry_run)
    /\ UNCHANGED <<plugins, running, docker>>
    /\ UNCHANGED <<rootVars, projectVars, hashVars, runmodeVars>>

\* the user runs ddc_ironwood
DdcIronwood ==
    /\ call = Unset
    /\ \E args \in ArgLists, reset, dry_run \in BOOLEAN, o \in PluginListings(plugins) :
          /\ call' = Call("ddc_ironwood", args, reset, dry_run)
          /\ outcome' = ddc_ironwood(plugins, o, args, reset, dry_run)
    /\ UNCHANGED <<plugins, running, docker>>
    /\ UNCHANGED <<rootVars, projectVars, hashVars, runmodeVars>>

\* hashA = get_requirements_hash(dirA)
HashDirA ==
    /\ hashA = Unset
    /\ \E o \in Listings(dirA) :
          hashA' = [kind |-> "digest", listing |-> o, hex |-> get_requirements_hash(dirA, o)]
    /\ UNCHANGED <<dirA, dirB, hashB, rootVars, projectVars, runmodeVars, cliVars>>

\* hashB = get_requirements_hash(dirB)
HashDirB ==
    /\ hashB = Unset
    /\ \E o \in Listings(dirB) :
          hashB' = [kind |-> "digest", listing |-> o, hex |-> get_requirements_hash(dirB, o)]
    /\ UNCHANGED <<dirA, dirB, hashA, rootVars, projectVars, runmodeVars, cliVars>>

\* root = find_project_root(path)
Snapshot(what) ==
    [kind |-> "snapshot", what |-> what, reqDir |-> reqDir, themesDir |-> themesDir,
     project |-> project, listing |-> listing]

\* the contents of <root>/requirements change after a Project was built
MutateRequirements ==
    /\ IsProject(project) /\ before = Unset /\ reqDir # NoDir
    /\ before' = Snapshot("requirements")
    /\ reqDir' \in DirsOver(ReqNames) \ {reqDir}
    /\ project' = Unset
    /\ UNCHANGED <<conf, path, root, config, themesDir, listing>>
    /\ UNCHANGED <<hashVars, runmodeVars, cliVars>>

\* the contents of <root>/themes change after a Project was built
MutateThemes ==
    /\ IsProject(project) /\ before = Unset /\ themesDir # NoDir
    /\ before' = Snapshot("themes")
    /\ themesDir' \in DirsOver(ThemeNames) \ {themesDir}
    /\ project' = Unset
    /\ UNCHANGED <<conf, path, root, config, reqDir, listing>>
    /\ UNCHANGED <<hashVars, runmodeVars, cliVars>>

FindRoot ==
    /\ root = Unset
    /\ root' = find_project_root(conf, path)
    /\ UNCHANGED <<conf, path, projectVars, hashVars, runmodeVars, cliVars>>

-----------------------------------------------------------------------------
(* Initial states *)

IdleRoot == conf = Layout({}, {}) /\ path = <<>> /\ root = Unset
IdleProject ==
    /\ config = NoneConfig /\ reqDir = NoDir /\ themesDir = NoDir
    /\ project = Unset /\ listing = <<>> /\ before = Unset
IdleHash == dirA = NoDir /\ dirB = NoDir /\ hashA = Unset /\ hashB = Unset
IdleRunmode == statusFile = None /\ lastSet = Unset /\ got = Unset
IdleCli ==
    /\ plugins = <<>> /\ running = {} /\ docker = FALSE
    /\ call = Unset /\ outcome = Unset

InitRoot ==
    /\ conf \in Layouts(MaxConf) /\ path \in Paths /\ root = Unset
    /\ IdleProject /\ IdleHash /\ IdleRunmode /\ IdleCli

SpecRoot == InitRoot /\ [][FindRoot]_vars

\* the configuration file sits in the starting directory, in its parent, in a
\* directory beside the path, or nowhere
ProjectLayouts == {Layout(F, {}) : F \in {{<<"a", "b">>}, {<<"a">>}, {<<"b">>}, {}}}

InitProject ==
    /\ conf \in ProjectLayouts /\ path = <<"a", "b">> /\ root = Unset
    /\ config \in Configs
    /\ reqDir \in DirsOver(ReqNames) \cup {NoDir}
    /\ themesDir \in DirsOver(ThemeNames) \cup {NoDir}
    /\ project = Unset /\ listing = <<>> /\ before = Unset
    /\ IdleHash /\ IdleRunmode /\ IdleCli

SpecProject == InitProject /\ [][Construct]_vars

InitTags ==
    /\ conf = Layout({<<"a">>}, {}) /\ path = <<"a", "b">> /\ root = Unset
    /\ config = Mapping([k \in {"project_name"} |-> ConfigValue(k)])
    /\ themesDir \in DirsOver(ThemeNames) \cup {NoDir}
    /\ reqDir \in DirsOver(ReqNames) \cup {NoDir}
    /\ project = Unset /\ listing = <<>> /\ before = Unset
    /\ IdleHash /\ IdleRunmode /\ IdleCli

NextTags == Construct \/ MutateRequirements \/ MutateThemes

SpecTags == InitTags /\ [][NextTags]_vars

InitHash ==
    /\ dirA \in DirsOver(ReqNames) /\ dirB \in DirsOver(ReqNames)
    /\ hashA = Unset /\ hashB = Unset
    /\ IdleRoot /\ IdleProject /\ IdleRunmode /\ IdleCli

NextHash == HashDirA \/ HashDirB

SpecHash == InitHash /\ [][NextHash]_vars

InitRunmode ==
    /\ statusFile \in {None} \cup {Some(t) : t \in Texts}
    /\ lastSet = Unset /\ got = Unset
    /\ config \in RunmodeConfigs
    /\ conf = Layout({<<"a">>}, {}) /\ path = <<"a">> /\ root = Unset
    /\ reqDir = NoDir /\ themesDir = NoDir
    /\ project = Unset /\ listing = <<>> /\ before = Unset
    /\ IdleHash /\ IdleCli

NextRunmode == GetRunmode \/ SetRunmode \/ EditStatusFile

SpecRunmode == InitRunmode /\ [][NextRunmode]_vars

InitCli ==
    /\ plugins \in [1..MaxPlugins -> PluginSettings]
    /\ running \in SUBSET Services
    /\ docker \in BOOLEAN
    /\ call = Unset /\ outcome = Unset
    /\ IdleRoot /\ IdleProject /\ IdleHash /\ IdleRunmode

NextCli == Ddc \/ DdcIronwood

SpecCli == InitCli /\ [][NextCli]_vars

-----------------------------------------------------------------------------
(* Project root resolution *)

ConfDirsAbove(p) == {d \in Ancestors(p) : HasConfFile(conf, d)}
Nearest(S) == CHOOSE d \in S : \A e \in S : Len(e) <= Len(d)

\* C1: whenever some directory from the starting directory up to and including
\* the filesystem root holds the configuration file, find_project_root returns
\* the nearest such directory.
ClaimC1 ==
    (root # Unset /\ ConfDirsAbove(path) # {})
        => root = Found(Nearest(ConfDirsAbove(path)))

\* find_project_root never tests the filesystem root: with the file in no
\* directory below the root it fails, and otherwise returns the nearest
RootBelowFilesystemRoot ==
    root # Unset =>
        IF ConfDirsAbove(path) \ {<<>>} # {}
        THEN root = Found(Nearest(ConfDirsAbove(path) \ {<<>>}))
        ELSE IsError(root)

-----------------------------------------------------------------------------
(* Project construction *)

LacksProjectName(cfg) == cfg = NoneConfig \/ "project_name" \notin DOMAIN cfg.items

\* C2: a configuration without project_name makes Project(path) fail inside
\* the constructor, whatever other keys and directories exist: the call raises
\* and no Project (so no derived tag) comes out of it.
NoProjectWithoutName ==
    (project # Unset /\ LacksProjectName(config)) =>
        /\ IsError(project)
        /\ (config # NoneConfig /\ ~IsError(find_project_root(conf, path)))
              => project = ValueError("A project_name was not specified")

NoProjectWithoutNameWitness ==
    /\ project = ValueError("A project_name was not specified")
    /\ DOMAIN config.items =
          {"base_image", "final_base_image", "mysql_db_name", "default_runmode"}
    /\ reqDir # NoDir /\ themesDir # NoDir

\* C3: in every constructed Project, without a requirements directory
\* requirements_image_tag is base_image, without a themes directory
\* themes_image_tag is requirements_image_tag, and image_tag is
\* themes_image_tag (so with neither directory image_tag is base_image).
TagFallbackChain ==
    IsProject(project) =>
        /\ project.base_image = Get(config, "base_image", <<"derex/openedx-ironwood:latest">>)
        /\ reqDir = NoDir => project.requirements_image_tag = project.base_image
        /\ themesDir = NoDir => project.themes_image_tag = project.requirements_image_tag
        /\ project.image_tag = project.themes_image_tag
        /\ (reqDir = NoDir /\ themesDir = NoDir) => project.image_tag = project.base_image

TagFallbackChainWitness ==
    /\ IsProject(project) /\ reqDir = NoDir /\ themesDir = NoDir
    /\ project.image_tag = <<"acme/openedx:1.0">>

-----------------------------------------------------------------------------
(* Image tags under mutation of the directories *)

Rebuilt == before # Unset /\ IsProject(project)

\* C4: after any mutation of the contents of the requirements directory or of
\* the themes directory, the rebuilt project's image_tag differs from the one
\* before, whichever of the two directories exist.
ClaimC4 == Rebuilt => project.image_tag # before.project.image_tag

HashedBytesChanged ==
    IF before.what = "requirements"
    THEN Concat(reqDir, listing) # Concat(before.reqDir, before.listing)
    ELSE get_dir_hash(themesDir) # get_dir_hash(before.themesDir)

\* C4, amended: with no themes directory, a mutation of the requirements
\* directory changes image_tag exactly when it changes the bytes that are
\* hashed (those of the direct-child regular files, concatenated in
\* enumeration order); with a themes directory, a mutation of the requirements
\* directory never changes image_tag; a mutation of the themes directory
\* changes image_tag exactly when it changes the digest of that directory.
TagFollowsHashedBytes ==
    Rebuilt =>
        IF before.what = "requirements" /\ themesDir # NoDir
        THEN project.image_tag = before.project.image_tag
        ELSE (project.image_tag # before.project.image_tag) <=> HashedBytesChanged

TagFollowsHashedBytesWitness ==
    /\ Rebuilt /\ before.what = "requirements" /\ themesDir = NoDir
    /\ HashedBytesChanged
    /\ project.image_tag # before.project.image_tag
    /\ Len(Concat(reqDir, listing)) = Len(Concat(before.reqDir, before.listing))

-----------------------------------------------------------------------------
(* The directory hash *)

Hashed == hashA # Unset /\ hashB # Unset

FilesOf(d) == {n \in DOMAIN d.entries : d.entries[n].kind = "file"}

BytesAt(d, n) == IF n \in FilesOf(d) THEN d.entries[n].bytes ELSE <<>>

\* the two directories differ by at least one byte in one direct-child regular file
FilesDiffer(d, e) ==
    FilesOf(d) = FilesOf(e) /\ \E n \in FilesOf(d) : BytesAt(d, n) # BytesAt(e, n)

\* C5: two directories whose direct-child regular files differ have different
\* hashes.
ClaimC5 == (Hashed /\ FilesDiffer(dirA, dirB)) => hashA.hex # hashB.hex

\* the same files in both, listed in the same order, one of them with other bytes
OneFileDiffers(d, e) ==
    /\ FilesOf(d) = FilesOf(e)
    /\ hashA.listing = hashB.listing
    /\ Cardinality({n \in FilesOf(d) : d.entries[n].bytes # e.entries[n].bytes}) = 1

\* C5, amended: the hash is that of the concatenation of the files' bytes in
\* enumeration order, so two directories have different hashes exactly when
\* these concatenations differ; in particular when they hold the same files,
\* listed in the same order, and exactly one file's bytes differ.
HashDistinguishesConcatenations ==
    Hashed =>
        /\ (hashA.hex # hashB.hex)
              <=> Concat(dirA, hashA.listing) # Concat(dirB, hashB.listing)
        /\ OneFileDiffers(dirA, dirB) => hashA.hex # hashB.hex

HashDistinguishesConcatenationsWitness ==
    /\ Hashed /\ OneFileDiffers(dirA, dirB)
    /\ Cardinality(FilesOf(dirA)) = 2
    /\ hashA.hex # hashB.hex

-----------------------------------------------------------------------------
(* The runmode status *)

\* C6: after any sequence of runmode writes, a read returns the mode of the
\* most recent write, whatever default_runmode the configuration holds.
LastWriterWins == (lastSet # Unset /\ got # Unset) => got = lastSet

LastWriterWinsWitness ==
    /\ lastSet = Mode("production") /\ got = Mode("production")
    /\ Get(config, "default_runmode", None) = <<"debug">>

\* str.strip()
RECURSIVE LStrip(_)
LStrip(text) ==
    IF text # <<>> /\ Head(text) \in Whitespace THEN LStrip(Tail(text)) ELSE text
RECURSIVE RStrip(_)
RStrip(text) ==
    IF text # <<>> /\ text[Len(text)] \in Whitespace
    THEN RStrip(SubSeq(text, 1, Len(text) - 1)) ELSE text
Trim(text) == RStrip(LStrip(text))

DefaultMode ==
    LET default == Get(config, "default_runmode", None)
    IN  IF default # None /\ IsMember(default) THEN default[1] ELSE ProjectRunMode[1]

\* C7: a read returns the mode that the trimmed text of the status file names,
\* if the file exists and names one; otherwise the configured default_runmode
\* if it names a mode; otherwise debug.
ClaimC7 ==
    got # Unset =>
        got = Mode(IF statusFile # None /\ IsMember(Trim(statusFile[1]))
                   THEN Trim(statusFile[1])[1]
                   ELSE DefaultMode)

-----------------------------------------------------------------------------
(* The compose wrapper and the two commands *)

VariantOf(cmd) == IF cmd = "ddc" THEN "services" ELSE "openedx"

\* the command reached run_compose and the plugins' settings loaded
RanCompose == call # Unset /\ outcome.echoed # None

\* the fragments of the plugins k, k-1, ..., 1 (registration order) for a variant
RECURSIVE ReverseRegistration(_, _)
ReverseRegistration(variant, k) ==
    IF k = 0 THEN <<>>
    ELSE (IF variant \in plugins[k].provides THEN Fragment(k, variant) ELSE <<>>)
         \o ReverseRegistration(variant, k - 1)

\* C8: the aggregated compose-file list is the concatenation of the fragments
\* in reverse registration order, Fn, ..., F1, the plugins without a provider
\* for the variant contributing nothing.
ClaimC8 ==
    RanCompose =>
        outcome.echoed[1] =
            <<"docker-compose">>
            \o ReverseRegistration(VariantOf(call.cmd), Len(plugins))
            \o COMPOSE_EXTRA_OPTS \o call.args

\* the fragments of the plugins as listed in o, last first
RECURSIVE ReverseListing(_, _, _)
ReverseListing(variant, o, k) ==
    IF k = 0 THEN <<>>
    ELSE (IF variant \in plugins[o[k]].provides THEN Fragment(o[k], variant) ELSE <<>>)
         \o ReverseListing(variant, o, k - 1)

Mains == SelectSeq(outcome.effects, LAMBDA e : e.op = "main")

\* C9: the argument vector is ["docker-compose"], the aggregated fragments,
\* COMPOSE_EXTRA_OPTS and the user arguments, in that order; with dry-run the
\* compose runner is not invoked, and otherwise it is invoked exactly once,
\* with that vector.
ArgvAsBuilt ==
    RanCompose =>
        LET argv == <<"docker-compose">>
                    \o ReverseListing(VariantOf(call.cmd), outcome.listing[1],
                                      Len(plugins))
                    \o COMPOSE_EXTRA_OPTS \o call.args
        IN  /\ outcome.echoed = Some(argv)
            /\ call.dry_run => Mains = <<>>
            /\ ~call.dry_run => Mains = <<Main(argv)>>

ArgvAsBuiltWitness ==
    /\ RanCompose /\ ~call.dry_run /\ call.args = <<"up", "-d">>
    /\ Len(Mains) = 1 /\ Len(Mains[1].argv) = 7

ArgvDryRunWitness ==
    /\ RanCompose /\ call.dry_run /\ call.args = <<"up", "-d">>
    /\ Mains = <<>> /\ Len(outcome.echoed[1]) = 7

NeedsServices ==
    \/ call.cmd = "ddc" /\ call.reset /\ "mysql" \notin running
    \/ /\ call.cmd = "ddc_ironwood" /\ Services \ running # {}
       /\ \/ call.reset
          \/ \E k \in DOMAIN call.args : call.args[k] \in {"up", "start"}

\* C10: when the backing services that the requested operation depends on are
\* not detected, the command returns a non-zero status and does nothing: no
\* database reset or query, no compose run.
ClaimC10 ==
    (call # Unset /\ docker /\ NeedsServices) =>
        outcome.rc # 0 /\ outcome.effects = <<>>

====
